---- MODULE Spec2Model ----
(***************************************************************************)
(* Hawaiian font catalog backend: the visual font analysis engine          *)
(* (HawaiianFontScanner), the scan start endpoint (POST /api/scan/start)   *)
(* and the background scan task (scanFontsAsync) of src/font-scanner.js.   *)
(*                                                                         *)
(* Every await of the source is a step boundary: between two steps of one  *)
(* handler or task any other handler or task may run.  Awaits that touch   *)
(* only the state of the running task and cannot be told apart by any      *)
(* other task are folded into the step that precedes them.                 *)
(***************************************************************************)
EXTENDS Integers, Sequences, FiniteSets, TLC

VARIABLES
    env,        \* which inputs the outside world supplies (see Inputs)
    catalog,    \* the external font directory, in popularity order
    batches,    \* table scan_batches; the id of a row is its index
    fontRows,   \* calls of insert_scan_result that succeeded, in order
    reqs,       \* the start requests: position in the handler, body, response
    tasks,      \* scanFontsAsync invocations; tasks[b] serves batch b
    img1Buffer, \* scorer harness: first buffer handed to compareImages
    img2Buffer, \* scorer harness: second buffer
    scorerOut,  \* scorer harness: the scores returned so far
    windows,    \* window harness: the calls of fetchGoogleFonts and their results
    now,        \* the clock (Date.now, CURRENT_TIMESTAMP), in ticks
    cron,       \* the callback of cron.schedule: its position and last outcome
    stopped     \* the host process has ended

vars ==
    <<env, catalog, batches, fontRows, reqs, tasks, img1Buffer, img2Buffer, scorerOut, windows,
      now, cron, stopped>>

sysVars == <<env, catalog, batches, fontRows, reqs, tasks>>

scorerVars == <<img1Buffer, img2Buffer, scorerOut, windows>>

cronVars == <<now, cron>>

hostVars == <<stopped>>

(***************************************************************************)
(* Bounds of the model.                                                    *)
(***************************************************************************)
MaxRequests == 2    \* start requests in Spec

MaxFonts == 3       \* longest catalog in ScanSpec

MaxLen == 3         \* longest buffer in ScorerSpec

MaxTicks == 28      \* last reading of the clock in CronSpec

(***************************************************************************)
(* Program constants.                                                      *)
(***************************************************************************)
DefaultBatchSize == 50

DefaultPixelThreshold == 50

MinGlyphWidth == 10

NumDiacriticals == 10

\* daysSinceLastScan >= 14
MinIntervalDays == 14

\* daysSinceLastScan when there is no incremental batch
NeverScannedDays == 999

\* ticks of the clock in a day: a tick is half a day
TicksPerDay == 2

\* JavaScript's undefined for a numeric field that is absent.
Undefined == -1

\* JavaScript's undefined for a text field that is absent.
UndefinedText == "<undefined>"

\* Marker of a result without an error key, and of a NULL text column.
NoError == "<none>"

\* NULL in an integer column.
Null == -1

(***************************************************************************)
(* JavaScript helpers.                                                     *)
(***************************************************************************)
\* x || d : the default replaces every falsy x (undefined and 0 alike).
OrDefault(x, d) == IF x = Undefined \/ x = 0 THEN d ELSE x

\* destructuring default { x = d } : the default replaces undefined only.
ParamDefault(x, d) == IF x = Undefined THEN d ELSE x

\* the same for a text field
TextDefault(x, d) == IF x = UndefinedText THEN d ELSE x

\* !s for a string or absent key: true for an absent key and for "".
Falsy(s) == s = NoError \/ s = ""

Min(a, b) == IF a < b THEN a ELSE b

Abs(n) == IF n < 0 THEN -n ELSE n

(***************************************************************************)
(* DifferenceScorer: HawaiianFontScanner.compareImages.                    *)
(***************************************************************************)
RECURSIVE CountDifferences(_, _, _)
\* the loop of lines 199-204 from index i on (1-based here)
CountDifferences(a, b, i) ==
    IF i > Len(a) THEN 0
    ELSE (IF a[i] # b[i] THEN 1 ELSE 0) + CountDifferences(a, b, i + 1)

\* compareImages with its loop started at the second byte
compareImages_FromSecondByte(a, b) ==
    IF Len(a) # Len(b)
    THEN Abs(Len(a) - Len(b))
    ELSE CountDifferences(a, b, 2)

compareImages(a, b) ==
    IF Len(a) # Len(b)
    THEN Abs(Len(a) - Len(b))
    ELSE CountDifferences(a, b, 1)

(***************************************************************************)
(* FontCatalogSource: the window fetchGoogleFonts cuts out of the items.   *)
(***************************************************************************)
\* Array.prototype.slice(from) and slice(0, n) for from, n >= 0
SliceFrom(s, from) == SubSeq(s, from + 1, Len(s))

SliceTo(s, n) == SubSeq(s, 1, Min(n, Len(s)))

\* fetchGoogleFonts with the two slices in the other order
fetchGoogleFonts_LimitFirst(items, offset, limit) ==
    LET upToLimit == IF limit # Undefined /\ limit # 0 THEN SliceTo(items, limit) ELSE items
    IN  IF offset > 0 THEN SliceFrom(upToLimit, offset) ELSE upToLimit

fetchGoogleFonts(items, offset, limit) ==
    LET afterOffset == IF offset > 0 THEN SliceFrom(items, offset) ELSE items
    IN  IF limit # Undefined /\ limit # 0 THEN SliceTo(afterOffset, limit) ELSE afterOffset

(***************************************************************************)
(* CharacterRenderProbe: testDiacriticalCharacters.                        *)
(***************************************************************************)
Chars == 1..NumDiacriticals

\* CharSupported with >= in place of >
CharSupported_AtLeast(width) == width >= MinGlyphWidth

\* results[char] = charWidth > 10
CharSupported(width) == width > MinGlyphWidth

\* the summary of the normal path, from the measured width of each character
DiacriticalSummary(widths) ==
    LET results == [c \in Chars |-> CharSupported(widths[c])]
        supportedCount == Cardinality({c \in Chars : results[c]})
        totalCount == NumDiacriticals
    IN  [individual |-> results,
         supportedCount |-> supportedCount,
         totalCount |-> totalCount,
         allSupported |-> (supportedCount = totalCount),
         percentageSupported |-> (supportedCount * 100) \div totalCount]

\* the summary of the catch block
FallbackSummary ==
    [individual |-> <<>>,
     supportedCount |-> 0,
     totalCount |-> 0,
     allSupported |-> FALSE,
     percentageSupported |-> 0]

(***************************************************************************)
(* ClassificationPolicy and the two shapes of an analysis result.          *)
(***************************************************************************)
hasVisualDistinction(pixelDifference, pixelThreshold) == pixelDifference > pixelThreshold

autoApproved(pixelDifference, pixelThreshold, diacriticalTest) ==
    pixelDifference > pixelThreshold /\ diacriticalTest.allSupported

SuccessKeys ==
    {"fontFamily", "okenVsApostropheDifference", "hasVisualDistinction",
     "diacriticalSupport", "phrasePreview", "autoApproved"}

ErrorKeys == {"fontFamily", "error", "autoApproved"}

\* the object returned at lines 117-124
SuccessResult(fontFamily, pixelDifference, pixelThreshold, diacriticalTest) ==
    [keys |-> SuccessKeys,
     fontFamily |-> fontFamily,
     okenVsApostropheDifference |-> pixelDifference,
     hasVisualDistinction |-> hasVisualDistinction(pixelDifference, pixelThreshold),
     diacriticalSupport |-> diacriticalTest,
     autoApproved |-> autoApproved(pixelDifference, pixelThreshold, diacriticalTest),
     error |-> NoError]

\* the object returned by the catch block, lines 128-132
ErrorResult(fontFamily, message) ==
    [keys |-> ErrorKeys,
     fontFamily |-> fontFamily,
     okenVsApostropheDifference |-> Undefined,
     hasVisualDistinction |-> FALSE,
     diacriticalSupport |-> FallbackSummary,
     autoApproved |-> FALSE,
     error |-> message]

NoResult == ErrorResult(0, NoError)

(***************************************************************************)
(* What the outside world supplies.                                        *)
(***************************************************************************)
Fill(n, v) == [i \in 1..n |-> v]

\* pairs (okina snapshot, apostrophe snapshot) a page may render
SomeShots ==
    {<<Fill(100, 0), Fill(120, 0)>>,
     <<Fill(51, 0), Fill(51, 1)>>}

OneShot == {<<Fill(51, 0), Fill(51, 1)>>}

\* measured widths of the ten characters
AllWide == [c \in Chars |-> 24]

OneAtLimit == [c \in Chars |-> IF c = 3 THEN MinGlyphWidth ELSE MinGlyphWidth + 1]

SomeWidths == {AllWide, OneAtLimit}

\* request bodies of POST /api/scan/start
SomeBodies ==
    [offset : {Undefined, 1}, batchSize : {Undefined, 1, 2}, pixelThreshold : {Undefined, 0, 20},
     scanType : {UndefinedText}]

OneBody ==
    [offset : {Undefined}, batchSize : {Undefined}, pixelThreshold : {Undefined},
     scanType : {UndefinedText}]

\* a client may name the scan type itself
TypedBodies ==
    [offset : {Undefined}, batchSize : {Undefined}, pixelThreshold : {Undefined},
     scanType : {UndefinedText, "incremental"}]

\* env names one of three worlds: "rich" has every input above, "lean" one
\* request body and one snapshot pair, "typed" the lean world with both scan
\* types
Inputs ==
    [rich |-> [bodies |-> SomeBodies, shots |-> SomeShots, widths |-> SomeWidths,
               messages |-> {"E_render", ""}],
     lean |-> [bodies |-> OneBody, shots |-> OneShot, widths |-> {AllWide},
               messages |-> {"E_render"}],
     typed |-> [bodies |-> TypedBodies, shots |-> OneShot, widths |-> {AllWide},
                messages |-> {"E_render"}]]

Catalog(n) == [i \in 1..n |-> i]

(***************************************************************************)
(* Records.                                                                *)
(***************************************************************************)
NewRequest == [pc |-> "new", body |-> CHOOSE b \in OneBody : TRUE, code |-> 0, id |-> 0]

\* the default of scan_batches.status, which the INSERT of line 594 leaves to
\* the schema
NewBatchStatus == "running"

\* the default of scan_batches.started_at, which the INSERT leaves to the
\* schema as well: the time of the INSERT
NewBatchStartedAt == now

Running == {b \in 1..Len(batches) : batches[b].status = "running"}

RECURSIVE MaxBatchNumber(_)
\* SELECT COALESCE(MAX(batch_number), 0) over the first n rows
MaxBatchNumber(n) ==
    IF n = 0 THEN 0
    ELSE LET m == MaxBatchNumber(n - 1)
         IN  IF batches[n].batchNumber > m THEN batches[n].batchNumber ELSE m

\* NewBatch with COALESCE(MAX(batch_number), 0) not incremented
NewBatch_NoIncrement(scanType, offset, batchSize) ==
    [batchNumber |-> MaxBatchNumber(Len(batches)),
     scanType |-> scanType,
     offset |-> offset,
     limit |-> batchSize,
     status |-> NewBatchStatus,
     startedAt |-> NewBatchStartedAt,
     completedAt |-> FALSE,
     fontsProcessed |-> Null,
     fontsApproved |-> Null,
     errorMessage |-> NoError]

\* the row the INSERT of lines 594-598 creates
NewBatch(scanType, offset, batchSize) ==
    [batchNumber |-> MaxBatchNumber(Len(batches)) + 1,
     scanType |-> scanType,
     offset |-> offset,
     limit |-> batchSize,
     status |-> NewBatchStatus,
     startedAt |-> NewBatchStartedAt,
     completedAt |-> FALSE,
     fontsProcessed |-> Null,
     fontsApproved |-> Null,
     errorMessage |-> NoError]

\* scanFontsAsync(batchId, offset, batchSize, pixelThreshold) up to its first
\* await: the constructor (lines 7-19), runScan's options (271-276) and the
\* call of puppeteer.launch
NewTask(offset, batchSize, pixelThreshold) ==
    [pc |-> "launch",
     batchSize |-> OrDefault(batchSize, DefaultBatchSize),
     pixelThreshold |-> OrDefault(pixelThreshold, DefaultPixelThreshold),
     offset |-> ParamDefault(offset, 0),
     limit |-> ParamDefault(batchSize, OrDefault(batchSize, DefaultBatchSize)),
     saveToDisk |-> FALSE,
     browser |-> "null",
     sessions |-> 0,
     fonts |-> <<>>,
     i |-> 0,
     faulted |-> {},
     pixelDifference |-> Undefined,
     widths |-> <<>>,
     diacriticalTest |-> FallbackSummary,
     analysis |-> NoResult,
     results |-> <<>>,
     thrown |-> FALSE,
     message |-> NoError,
     cause |-> NoError,
     k |-> 0,
     processedCount |-> 0,
     approvedCount |-> 0]

(***************************************************************************)
(* POST /api/scan/start, lines 571-618.  The handler awaits twice: the     *)
(* SELECT of the running batches and the INSERT of the new batch.          *)
(***************************************************************************)
Respond(r, body, code, id) ==
    reqs' = [reqs EXCEPT ![r] = [pc |-> "done", body |-> body, code |-> code, id |-> id]]

\* requests are numbered in the order in which they reach the handler
Arrives(r) == reqs[r].pc = "new" /\ \A q \in 1..(r - 1) : reqs[q].pc # "new"

\* StartCheck with the SELECT of lines 581-584 without its WHERE clause: a
\* batch of any status is a conflict
StartCheck_AnyStatus(r) ==
    /\ Arrives(r)
    /\ \E body \in Inputs[env].bodies :
          \/ /\ batches # <<>>
             /\ \E id \in 1..Len(batches) : Respond(r, body, 409, id)
          \/ /\ batches = <<>>
             /\ reqs' = [reqs EXCEPT ![r] = [@ EXCEPT !.pc = "checked", !.body = body]]
    /\ UNCHANGED <<env, catalog, batches, fontRows, tasks, scorerVars, cronVars, hostVars>>

\* StartCheck without the test of line 586
StartCheck_NoConflict(r) ==
    /\ Arrives(r)
    /\ \E body \in Inputs[env].bodies :
          reqs' = [reqs EXCEPT ![r] = [@ EXCEPT !.pc = "checked", !.body = body]]
    /\ UNCHANGED <<env, catalog, batches, fontRows, tasks, scorerVars, cronVars, hostVars>>

\* lines 572-591: the running check answers, and a conflict is answered at once
StartCheck(r) ==
    /\ Arrives(r)
    /\ \E body \in Inputs[env].bodies :
          \/ /\ Running # {}
             /\ \E id \in Running : Respond(r, body, 409, id)
          \/ /\ Running = {}
             /\ reqs' = [reqs EXCEPT ![r] = [@ EXCEPT !.pc = "checked", !.body = body]]
    /\ UNCHANGED <<env, catalog, batches, fontRows, tasks, scorerVars, cronVars, hostVars>>

\* lines 614-617: the SELECT rejects
StartCheckFault(r) ==
    /\ Arrives(r)
    /\ \E body \in Inputs[env].bodies : Respond(r, body, 500, 0)
    /\ UNCHANGED <<env, catalog, batches, fontRows, tasks, scorerVars, cronVars, hostVars>>

\* StartInsert with `await scanFontsAsync(...)` at line 604: the answer waits
\* for the scan, here one of no fonts, to complete
StartInsert_Awaited(r) ==
    /\ reqs[r].pc = "checked"
    /\ LET body == reqs[r].body
           batchSize == ParamDefault(body.batchSize, DefaultBatchSize)
           offset == ParamDefault(body.offset, 0)
           scanType == TextDefault(body.scanType, "manual")
           pixelThreshold == ParamDefault(body.pixelThreshold, DefaultPixelThreshold)
       IN  /\ batches' = Append(batches,
                                [NewBatch(scanType, offset, batchSize) EXCEPT
                                    !.status = "completed", !.completedAt = TRUE,
                                    !.fontsProcessed = 0, !.fontsApproved = 0])
           /\ tasks' = Append(tasks, [NewTask(offset, batchSize, pixelThreshold) EXCEPT
                                         !.pc = "done", !.browser = "closed"])
           /\ Respond(r, body, 200, Len(batches) + 1)
    /\ UNCHANGED <<env, catalog, fontRows, scorerVars, cronVars, hostVars>>

\* lines 593-612: the INSERT answers, the task is started, the id is returned
StartInsert(r) ==
    /\ reqs[r].pc = "checked"
    /\ LET body == reqs[r].body
           batchSize == ParamDefault(body.batchSize, DefaultBatchSize)
           offset == ParamDefault(body.offset, 0)
           scanType == TextDefault(body.scanType, "manual")
           pixelThreshold == ParamDefault(body.pixelThreshold, DefaultPixelThreshold)
       IN  /\ batches' = Append(batches, NewBatch(scanType, offset, batchSize))
           /\ tasks' = Append(tasks, NewTask(offset, batchSize, pixelThreshold))
           /\ Respond(r, body, 200, Len(batches) + 1)
    /\ UNCHANGED <<env, catalog, fontRows, scorerVars, cronVars, hostVars>>

\* lines 614-617: the INSERT rejects
StartInsertFault(r) ==
    /\ reqs[r].pc = "checked"
    /\ Respond(r, reqs[r].body, 500, 0)
    /\ UNCHANGED <<env, catalog, batches, fontRows, tasks, scorerVars, cronVars, hostVars>>

(***************************************************************************)
(* scanFontsAsync (lines 718-774) and, inside it, runScan (270-294),       *)
(* scanFontBatch (209-247) and analyzeFontCharacters (66-136).             *)
(* tasks[t].pc names the await the task is suspended at.                   *)
(***************************************************************************)
Task(t) == tasks[t]

SetTask(t, rec) == tasks' = [tasks EXCEPT ![t] = rec]

\* an error leaves runScan: catch (288-290) rethrows, finally (291-293) runs
\* cleanup, which awaits browser.close() only when a browser was launched
\* the locals of scanFontBatch and of the try block of scanFontsAsync, which
\* an error that leaves them puts out of scope
Unwind(rec) ==
    [rec EXCEPT !.fonts = <<>>, !.i = 0, !.results = <<>>, !.k = 0,
                !.analysis = NoResult, !.pixelDifference = Undefined,
                !.widths = <<>>, !.diacriticalTest = FallbackSummary,
                !.processedCount = 0, !.approvedCount = 0]

\* history: the message of the first error the run raised outside a per-font
\* catch; a later error (of cleanup, of a status write) does not replace it,
\* and it is forgotten when the task ends
FirstError(rec, message) == IF rec.cause = NoError THEN message ELSE rec.cause

\* the catch block an error that leaves runScan reaches: that of
\* scanFontsAsync (line 763) or, for the run of main, that of main (line 328);
\* only main leaves saveToDisk at its default
CatchOf(rec) == IF rec.saveToDisk THEN "exit" ELSE "fail"

Throw(rec, message) ==
    [Unwind(rec) EXCEPT !.thrown = TRUE, !.message = message, !.cause = FirstError(rec, message),
                        !.pc = IF rec.browser = "null" THEN CatchOf(rec) ELSE "cleanup"]

\* the for loop of scanFontBatch at index i (1-based): the next font's
\* newPage, or the return through runScan's finally
LoopAt(rec, i) ==
    [rec EXCEPT !.i = i, !.pc = IF i <= Len(rec.fonts) THEN "newPage"
                                ELSE IF rec.saveToDisk THEN "save" ELSE "cleanup"]

\* history: the positions (in fonts) of the fonts whose analysis raised a
\* fault so far; forgotten once an error has left runScan
Faulted(rec) == [rec EXCEPT !.faulted = @ \cup {rec.i}]

\* the result scanFontBatch pushes, lines 222-237
BatchResult(rec) ==
    [rec.analysis EXCEPT !.keys = @ \cup {"googleFontData", "scannedAt", "scanBatch"}]
    @@ [googleFontData |-> rec.fonts[rec.i],
        scanBatch |-> <<rec.offset, rec.offset + OrDefault(rec.limit, rec.batchSize)>>]

\* line 23: puppeteer.launch resolves
Launch(t) ==
    /\ Task(t).pc = "launch"
    /\ SetTask(t, [Task(t) EXCEPT !.browser = "open", !.pc = "fetch"])
    /\ UNCHANGED <<env, catalog, batches, fontRows, reqs, scorerVars, cronVars, hostVars>>

\* line 23: puppeteer.launch rejects; this.browser stays null
LaunchFault(t) ==
    /\ Task(t).pc = "launch"
    /\ SetTask(t, Throw(Task(t), "E_launch"))
    /\ UNCHANGED <<env, catalog, batches, fontRows, reqs, scorerVars, cronVars, hostVars>>

\* lines 212-213 and 47-59: the catalog answers and the window is cut
Fetch(t) ==
    /\ Task(t).pc = "fetch"
    /\ LET rec == Task(t)
           fonts == fetchGoogleFonts(catalog, rec.offset, OrDefault(rec.limit, rec.batchSize))
       IN  SetTask(t, LoopAt([rec EXCEPT !.fonts = fonts], 1))
    /\ UNCHANGED <<env, catalog, batches, fontRows, reqs, scorerVars, cronVars, hostVars>>

\* lines 60-63: axios.get rejects and the error is rethrown
FetchFault(t) ==
    /\ Task(t).pc = "fetch"
    /\ SetTask(t, Throw(Task(t), "E_fetch"))
    /\ UNCHANGED <<env, catalog, batches, fontRows, reqs, scorerVars, cronVars, hostVars>>

\* line 67: browser.newPage resolves
NewPage(t) ==
    /\ Task(t).pc = "newPage"
    /\ SetTask(t, [Task(t) EXCEPT !.sessions = @ + 1, !.pc = "render"])
    /\ UNCHANGED <<env, catalog, batches, fontRows, reqs, scorerVars, cronVars, hostVars>>

\* line 67: browser.newPage rejects, outside the try of line 69
NewPageFault(t) ==
    /\ Task(t).pc = "newPage"
    /\ SetTask(t, Throw(Faulted(Task(t)), "E_newPage"))
    /\ UNCHANGED <<env, catalog, batches, fontRows, reqs, scorerVars, cronVars, hostVars>>

\* lines 95-108: content, wait, the two snapshots and their comparison
Render(t) ==
    /\ Task(t).pc = "render"
    /\ \E shot \in Inputs[env].shots :
          SetTask(t, [Task(t) EXCEPT !.pixelDifference = compareImages(shot[1], shot[2]),
                                     !.pc = "probe"])
    /\ UNCHANGED <<env, catalog, batches, fontRows, reqs, scorerVars, cronVars, hostVars>>

\* RenderFault without the finally of lines 133-135: the error result is
\* returned and pushed with the page still open
RenderFault_NoFinally(t) ==
    /\ Task(t).pc = "render"
    /\ \E message \in Inputs[env].messages :
          LET rec == [Faulted(Task(t)) EXCEPT
                        !.analysis = ErrorResult(Task(t).fonts[Task(t).i], message)]
          IN  SetTask(t, LoopAt([rec EXCEPT !.results = Append(@, BatchResult(rec)),
                                            !.analysis = NoResult],
                                rec.i + 1))
    /\ UNCHANGED <<env, catalog, batches, fontRows, reqs, scorerVars, cronVars, hostVars>>

\* lines 126-132: a step of lines 95-105 throws
RenderFault(t) ==
    /\ Task(t).pc = "render"
    /\ \E message \in Inputs[env].messages :
          SetTask(t, [Faulted(Task(t)) EXCEPT
                        !.analysis = ErrorResult(Task(t).fonts[Task(t).i], message),
                        !.pc = "closePage"])
    /\ UNCHANGED <<env, catalog, batches, fontRows, reqs, scorerVars, cronVars, hostVars>>

\* line 111 and lines 139-178: the ten widths are measured
Probe(t) ==
    /\ Task(t).pc = "probe"
    /\ \E widths \in Inputs[env].widths :
          SetTask(t, [Task(t) EXCEPT !.widths = widths,
                                     !.diacriticalTest = DiacriticalSummary(widths),
                                     !.pc = "phrase"])
    /\ UNCHANGED <<env, catalog, batches, fontRows, reqs, scorerVars, cronVars, hostVars>>

\* ProbeFault without the try and catch of lines 139 and 180-189: the error
\* reaches the catch of analyzeFontCharacters and becomes an errored result
ProbeFault_NotAbsorbed(t) ==
    /\ Task(t).pc = "probe"
    /\ SetTask(t, [Faulted(Task(t)) EXCEPT
                     !.analysis = ErrorResult(Task(t).fonts[Task(t).i], "E_probe"),
                     !.pc = "closePage"])
    /\ UNCHANGED <<env, catalog, batches, fontRows, reqs, scorerVars, cronVars, hostVars>>

\* lines 180-189: page.evaluate throws inside the probe, which absorbs it
ProbeFault(t) ==
    /\ Task(t).pc = "probe"
    /\ SetTask(t, [Faulted(Task(t)) EXCEPT !.diacriticalTest = FallbackSummary,
                                         !.pc = "phrase"])
    /\ UNCHANGED <<env, catalog, batches, fontRows, reqs, scorerVars, cronVars, hostVars>>

\* lines 114-124: the phrase snapshot and the result object
Phrase(t) ==
    /\ Task(t).pc = "phrase"
    /\ LET rec == Task(t)
       IN  SetTask(t, [rec EXCEPT
                         !.analysis = SuccessResult(rec.fonts[rec.i], rec.pixelDifference,
                                                    rec.pixelThreshold, rec.diacriticalTest),
                         !.pc = "closePage"])
    /\ UNCHANGED <<env, catalog, batches, fontRows, reqs, scorerVars, cronVars, hostVars>>

\* lines 126-132: the phrase snapshot throws
PhraseFault(t) ==
    /\ Task(t).pc = "phrase"
    /\ SetTask(t, [Faulted(Task(t)) EXCEPT
                     !.analysis = ErrorResult(Task(t).fonts[Task(t).i], "E_phrase"),
                     !.pc = "closePage"])
    /\ UNCHANGED <<env, catalog, batches, fontRows, reqs, scorerVars, cronVars, hostVars>>

\* ClosePage with page.close() not awaited: the loop goes on while the page
\* is still open
ClosePage_NotAwaited(t) ==
    /\ Task(t).pc = "closePage"
    /\ LET rec == Task(t)
       IN  SetTask(t, LoopAt([rec EXCEPT !.results = Append(@, BatchResult(rec)),
                                         !.analysis = NoResult,
                                         !.pixelDifference = Undefined,
                                         !.widths = <<>>,
                                         !.diacriticalTest = FallbackSummary],
                             rec.i + 1))
    /\ UNCHANGED <<env, catalog, batches, fontRows, reqs, scorerVars, cronVars, hostVars>>

\* lines 133-135, then 219-241: page.close resolves, the result is pushed,
\* the 100 ms pause passes and the loop goes on
ClosePage(t) ==
    /\ Task(t).pc = "closePage"
    /\ LET rec == Task(t)
       IN  SetTask(t, LoopAt([rec EXCEPT !.sessions = @ - 1,
                                         !.results = Append(@, BatchResult(rec)),
                                         !.analysis = NoResult,
                                         !.pixelDifference = Undefined,
                                         !.widths = <<>>,
                                         !.diacriticalTest = FallbackSummary],
                             rec.i + 1))
    /\ UNCHANGED <<env, catalog, batches, fontRows, reqs, scorerVars, cronVars, hostVars>>

\* lines 133-135: page.close rejects, so the page stays open; the error
\* replaces the pending result and leaves analyzeFontCharacters
ClosePageFault(t) ==
    /\ Task(t).pc = "closePage"
    /\ SetTask(t, Throw(Faulted(Task(t)), "E_closePage"))
    /\ UNCHANGED <<env, catalog, batches, fontRows, reqs, scorerVars, cronVars, hostVars>>

\* NextToInsert without the test of line 738: no result is passed over
NextToInsert_Every(results, k) == k

RECURSIVE NextToInsert(_, _)
\* the for loop of lines 737-743 from index k on: the first result that
\* passes `if (!result.error)`, or Len + 1
NextToInsert(results, k) ==
    IF k > Len(results) THEN k
    ELSE IF Falsy(results[k].error) THEN k
    ELSE NextToInsert(results, k + 1)

\* the loop of lines 737-743 at index k: the next insert_scan_result, or the
\* UPDATE of lines 746-759
InsertAt(rec, k) ==
    LET n == NextToInsert(rec.results, k)
    IN  [rec EXCEPT !.k = n, !.pc = IF n <= Len(rec.results) THEN "insert" ELSE "complete"]

\* where the caller goes on when runScan returns its results
ReturnTo(rec) == IF rec.saveToDisk THEN [rec EXCEPT !.pc = "summary"] ELSE InsertAt(rec, 1)

\* an error reaches the catch of scanFontsAsync, lines 763-772
Caught(rec, message) ==
    [Unwind(rec) EXCEPT !.thrown = TRUE, !.message = message, !.cause = FirstError(rec, message),
                        !.pc = CatchOf(rec), !.faulted = {}]

\* Cleanup with `this.cleanup()` not awaited at line 292: runScan returns
\* or rethrows while the browser is still open
Cleanup_NotAwaited(t) ==
    /\ Task(t).pc = "cleanup"
    /\ LET rec == Task(t)
       IN  SetTask(t, IF rec.thrown THEN [rec EXCEPT !.pc = CatchOf(rec), !.faulted = {}]
                      ELSE ReturnTo(rec))
    /\ UNCHANGED <<env, catalog, batches, fontRows, reqs, scorerVars, cronVars, hostVars>>

\* lines 262-267 and 291-293, then 286 or 290: browser.close resolves (and
\* with the browser its pages go); runScan returns its results or rethrows
Cleanup(t) ==
    /\ Task(t).pc = "cleanup"
    /\ LET rec == [Task(t) EXCEPT !.browser = "closed", !.sessions = 0]
       IN  SetTask(t, IF rec.thrown THEN [rec EXCEPT !.pc = CatchOf(rec), !.faulted = {}]
                      ELSE ReturnTo(rec))
    /\ UNCHANGED <<env, catalog, batches, fontRows, reqs, scorerVars, cronVars, hostVars>>

\* line 264: browser.close rejects inside finally, so the browser stays open;
\* its error is the one that leaves runScan
CleanupFault(t) ==
    /\ Task(t).pc = "cleanup"
    /\ SetTask(t, Caught([Task(t) EXCEPT !.faulted = {}], "E_cleanup"))
    /\ UNCHANGED <<env, catalog, batches, fontRows, reqs, scorerVars, cronVars, hostVars>>

\* InsertResult without the test of line 741: every inserted result counts
\* as approved
InsertResult_CountsEveryApproval(t) ==
    /\ Task(t).pc = "insert"
    /\ LET rec == Task(t)
           result == rec.results[rec.k]
       IN  /\ fontRows' = Append(fontRows, [batch |-> t, fontFamily |-> result.fontFamily])
           /\ SetTask(t, InsertAt([rec EXCEPT !.processedCount = @ + 1,
                                              !.approvedCount = @ + 1],
                                  rec.k + 1))
    /\ UNCHANGED <<env, catalog, batches, reqs, scorerVars, cronVars, hostVars>>

\* lines 739-741 and 776-787: insert_scan_result answers
InsertResult(t) ==
    /\ Task(t).pc = "insert"
    /\ LET rec == Task(t)
           result == rec.results[rec.k]
       IN  /\ fontRows' = Append(fontRows, [batch |-> t, fontFamily |-> result.fontFamily])
           /\ SetTask(t, InsertAt([rec EXCEPT
                                     !.processedCount = @ + 1,
                                     !.approvedCount = IF result.autoApproved THEN @ + 1 ELSE @],
                                  rec.k + 1))
    /\ UNCHANGED <<env, catalog, batches, reqs, scorerVars, cronVars, hostVars>>

\* lines 788-791: insert_scan_result rejects and the error is rethrown
InsertResultFault(t) ==
    /\ Task(t).pc = "insert"
    /\ SetTask(t, Caught(Task(t), "E_insert"))
    /\ UNCHANGED <<env, catalog, batches, fontRows, reqs, scorerVars, cronVars, hostVars>>

\* Complete with a statement after the UPDATE that throws: the row is
\* completed and the catch of line 763 runs all the same
Complete_ThenThrows(t) ==
    /\ Task(t).pc = "complete"
    /\ batches' = [batches EXCEPT ![t] = [@ EXCEPT !.status = "completed",
                                                   !.completedAt = TRUE,
                                                   !.fontsProcessed = Task(t).processedCount,
                                                   !.fontsApproved = Task(t).approvedCount]]
    /\ SetTask(t, Caught(Task(t), "E_log"))
    /\ UNCHANGED <<env, catalog, fontRows, reqs, scorerVars, cronVars, hostVars>>

\* lines 746-761: UPDATE ... SET status = 'completed' answers
Complete(t) ==
    /\ Task(t).pc = "complete"
    /\ batches' = [batches EXCEPT ![t] = [@ EXCEPT !.status = "completed",
                                                   !.completedAt = TRUE,
                                                   !.fontsProcessed = Task(t).processedCount,
                                                   !.fontsApproved = Task(t).approvedCount]]
    /\ SetTask(t, [Task(t) EXCEPT !.pc = "done"])
    /\ UNCHANGED <<env, catalog, fontRows, reqs, scorerVars, cronVars, hostVars>>

\* lines 746-759: the UPDATE rejects, and the catch of line 763 takes over
CompleteFault(t) ==
    /\ Task(t).pc = "complete"
    /\ SetTask(t, Caught(Task(t), "E_complete"))
    /\ UNCHANGED <<env, catalog, batches, fontRows, reqs, scorerVars, cronVars, hostVars>>

\* Fail with an UPDATE that leaves completed_at out
Fail_NoTimestamp(t) ==
    /\ Task(t).pc = "fail"
    /\ batches' = [batches EXCEPT ![t] = [@ EXCEPT !.status = "failed",
                                                   !.errorMessage = Task(t).message]]
    /\ SetTask(t, [Task(t) EXCEPT !.pc = "done"])
    /\ UNCHANGED <<env, catalog, fontRows, reqs, scorerVars, cronVars, hostVars>>

\* lines 766-772: UPDATE ... SET status = 'failed' answers
Fail(t) ==
    /\ Task(t).pc = "fail"
    /\ batches' = [batches EXCEPT ![t] = [@ EXCEPT !.status = "failed",
                                                   !.completedAt = TRUE,
                                                   !.errorMessage = Task(t).message]]
    /\ SetTask(t, [Task(t) EXCEPT !.pc = "done", !.cause = NoError])
    /\ UNCHANGED <<env, catalog, fontRows, reqs, scorerVars, cronVars, hostVars>>

\* lines 766-772: the UPDATE inside the catch rejects; nothing catches it and
\* the promise of scanFontsAsync is rejected
FailFault(t) ==
    /\ Task(t).pc = "fail"
    /\ SetTask(t, [Task(t) EXCEPT !.pc = "rejected", !.message = "E_fail", !.cause = NoError])
    /\ UNCHANGED <<env, catalog, batches, fontRows, reqs, scorerVars, cronVars, hostVars>>

(***************************************************************************)
(* The callback of cron.schedule, lines 799-833.  It awaits twice: the     *)
(* SELECT of the last incremental start, outside any try, and the SELECT   *)
(* of the running batches, inside the try of line 813.                     *)
(***************************************************************************)
RECURSIVE LastScan(_)
\* SELECT MAX(started_at) ... WHERE scan_type = 'incremental' over the first
\* n rows; NULL when there is none
LastScan(n) ==
    IF n = 0 THEN Null
    ELSE LET m == LastScan(n - 1)
         IN  IF batches[n].scanType = "incremental" /\ batches[n].startedAt > m
             THEN batches[n].startedAt
             ELSE m

\* lines 805-807, for the clock reading t
daysSinceLastScan(last, t) ==
    IF last # Null THEN (t - last) \div TicksPerDay ELSE NeverScannedDays

\* history: at this instant the minimum interval since the start of the last
\* incremental batch has elapsed (or there is no such batch) and no batch is
\* running
TriggerDue ==
    /\ Running = {}
    /\ LET last == LastScan(Len(batches))
       IN  last = Null \/ now - last >= MinIntervalDays * TicksPerDay

NewCron == [pc |-> "idle", outcome |-> "none", due |-> FALSE, seen |-> 0]

\* line 799: the schedule fires and the callback sends its first query
CronFire ==
    /\ cron.pc = "idle"
    /\ cron' = [pc |-> "lastScan", outcome |-> "none", due |-> TriggerDue,
                seen |-> Len(batches)]
    /\ UNCHANGED <<sysVars, scorerVars, now, hostVars>>

\* lines 800-811: the first query answers; too soon, the callback returns
CronLastScan ==
    /\ cron.pc = "lastScan"
    /\ cron' = IF daysSinceLastScan(LastScan(Len(batches)), now) >= MinIntervalDays
               THEN [cron EXCEPT !.pc = "runningCheck"]
               ELSE [cron EXCEPT !.pc = "idle", !.outcome = "tooSoon"]
    /\ UNCHANGED <<sysVars, scorerVars, now, hostVars>>

\* lines 800-803: the first query rejects, and with it the callback
CronLastScanFault ==
    /\ cron.pc = "lastScan"
    /\ cron' = [cron EXCEPT !.pc = "idle", !.outcome = "rejected"]
    /\ UNCHANGED <<sysVars, scorerVars, now, hostVars>>

\* CronRunningCheck that creates the incremental batch and starts its task
\* without looking at the rows of the running check
CronRunningCheck_StartsAnyway ==
    /\ cron.pc = "runningCheck"
    /\ cron' = [cron EXCEPT !.pc = "idle", !.outcome = "announced"]
    /\ batches' = Append(batches, NewBatch("incremental", 0, DefaultBatchSize))
    /\ tasks' = Append(tasks, NewTask(0, DefaultBatchSize, DefaultPixelThreshold))
    /\ UNCHANGED <<env, catalog, fontRows, reqs, scorerVars, now, hostVars>>

\* lines 815-825: the running check answers; with no batch running the
\* callback announces the incremental scan, and that is all it does
CronRunningCheck ==
    /\ cron.pc = "runningCheck"
    /\ cron' = [cron EXCEPT !.pc = "idle",
                            !.outcome = IF Running = {} THEN "announced" ELSE "busy"]
    /\ UNCHANGED <<sysVars, scorerVars, now, hostVars>>

\* lines 826-828: the running check rejects and the error is logged
CronRunningCheckFault ==
    /\ cron.pc = "runningCheck"
    /\ cron' = [cron EXCEPT !.pc = "idle", !.outcome = "caught"]
    /\ UNCHANGED <<sysVars, scorerVars, now, hostVars>>

\* time passes: half a day, or thirteen days and a half
Durations == {1, 13 * TicksPerDay + 1}

Pass(d) ==
    /\ now + d <= MaxTicks
    /\ now' = now + d
    /\ UNCHANGED <<sysVars, scorerVars, cron, hostVars>>

(***************************************************************************)
(* The scorer on its own: compareImages applied to a pair of buffers.      *)
(***************************************************************************)
Bytes == {0, 1, 255}

RECURSIVE SeqsUpTo(_)
SeqsUpTo(n) ==
    IF n = 0 THEN {<<>>}
    ELSE LET shorter == SeqsUpTo(n - 1)
         IN  shorter \cup {Append(s, b) : s \in {x \in shorter : Len(x) = n - 1}, b \in Bytes}

\* every pair of short buffers, and the snapshots of 100 and of 120 bytes
BufferPairs ==
    (SeqsUpTo(MaxLen) \X SeqsUpTo(MaxLen))
    \cup {<<Fill(100, 0), Fill(120, 0)>>, <<Fill(120, 1), Fill(100, 0)>>}

Score ==
    /\ Len(scorerOut) < 2
    /\ scorerOut' = Append(scorerOut, compareImages(img1Buffer, img2Buffer))
    /\ UNCHANGED <<img1Buffer, img2Buffer, windows, sysVars, cronVars, hostVars>>

(***************************************************************************)
(* main (lines 297-332): the run of the scanner from the command line,     *)
(* which leaves saveToDisk at its default and so saves the results to disk *)
(* (lines 282-284 and 249-260) before runScan returns.                     *)
(***************************************************************************)
\* the scanner and the options of lines 298-309, up to the first await
NewMainTask ==
    [NewTask(0, DefaultBatchSize, DefaultPixelThreshold) EXCEPT !.saveToDisk = TRUE]

\* lines 254-256: mkdir and writeFile resolve
Save(t) ==
    /\ Task(t).pc = "save"
    /\ SetTask(t, [Task(t) EXCEPT !.pc = "cleanup"])
    /\ UNCHANGED <<env, catalog, batches, fontRows, reqs, scorerVars, cronVars, hostVars>>

\* SaveFault without the finally of lines 291-293: the error leaves runScan
\* with the browser still open
SaveFault_NoFinally(t) ==
    /\ Task(t).pc = "save"
    /\ SetTask(t, Caught(Task(t), "E_save"))
    /\ UNCHANGED <<env, catalog, batches, fontRows, reqs, scorerVars, cronVars, hostVars>>

\* lines 254-256: mkdir or writeFile rejects
SaveFault(t) ==
    /\ Task(t).pc = "save"
    /\ SetTask(t, Throw(Task(t), "E_save"))
    /\ UNCHANGED <<env, catalog, batches, fontRows, reqs, scorerVars, cronVars, hostVars>>

\* lines 311-325: main prints the summary and returns
MainSummary(t) ==
    /\ Task(t).pc = "summary"
    /\ SetTask(t, [Task(t) EXCEPT !.pc = "done"])
    /\ UNCHANGED <<env, catalog, batches, fontRows, reqs, scorerVars, cronVars, hostVars>>

\* lines 328-331: main logs the error and calls process.exit(1)
MainExit(t) ==
    /\ Task(t).pc = "exit"
    /\ SetTask(t, [Task(t) EXCEPT !.pc = "exited"])
    /\ stopped' = TRUE
    /\ UNCHANGED <<env, catalog, batches, fontRows, reqs, scorerVars, cronVars>>

(***************************************************************************)
(* The host process is asked to stop.  The source registers no handler for *)
(* it (app.listen, lines 849-857, is the last statement that runs at       *)
(* start-up), so the process ends where it is: no code of a pending task   *)
(* or handler runs any more.                                               *)
(***************************************************************************)
Stop ==
    /\ ~stopped
    /\ stopped' = TRUE
    /\ UNCHANGED <<sysVars, scorerVars, cronVars>>

(***************************************************************************)
(* The catalog source on its own: fetchGoogleFonts applied to the catalog, *)
(* twice, for any offset and limit up to one past its end.                 *)
(***************************************************************************)
\* the catalog of n fonts, least popular first
Reversed(n) == [i \in 1..n |-> n + 1 - i]

Window(offset, limit) ==
    /\ Len(windows) < 2
    /\ windows' = Append(windows, [offset |-> offset, limit |-> limit,
                                   fonts |-> fetchGoogleFonts(catalog, offset, limit)])
    /\ UNCHANGED <<img1Buffer, img2Buffer, scorerOut, sysVars, cronVars, hostVars>>

(***************************************************************************)
(* Specifications.                                                         *)
(***************************************************************************)
SystemInit(e, requests, catalogs) ==
    /\ env = e
    /\ catalog \in catalogs
    /\ batches = <<>>
    /\ fontRows = <<>>
    /\ reqs = [r \in 1..requests |-> NewRequest]
    /\ tasks = <<>>

ScorerIdle ==
    /\ img1Buffer = <<>>
    /\ img2Buffer = <<>>
    /\ scorerOut = <<>>
    /\ windows = <<>>

CronIdle ==
    /\ now = 0
    /\ cron = NewCron
    /\ stopped = FALSE

Requests == DOMAIN reqs

Next ==
    \/ \E r \in Requests : StartCheck(r)
    \/ \E r \in Requests : StartCheckFault(r)
    \/ \E r \in Requests : StartInsert(r)
    \/ \E r \in Requests : StartInsertFault(r)
    \/ \E t \in DOMAIN tasks : Launch(t)
    \/ \E t \in DOMAIN tasks : LaunchFault(t)
    \/ \E t \in DOMAIN tasks : Fetch(t)
    \/ \E t \in DOMAIN tasks : FetchFault(t)
    \/ \E t \in DOMAIN tasks : NewPage(t)
    \/ \E t \in DOMAIN tasks : NewPageFault(t)
    \/ \E t \in DOMAIN tasks : Render(t)
    \/ \E t \in DOMAIN tasks : RenderFault(t)
    \/ \E t \in DOMAIN tasks : Probe(t)
    \/ \E t \in DOMAIN tasks : ProbeFault(t)
    \/ \E t \in DOMAIN tasks : Phrase(t)
    \/ \E t \in DOMAIN tasks : PhraseFault(t)
    \/ \E t \in DOMAIN tasks : ClosePage(t)
    \/ \E t \in DOMAIN tasks : ClosePageFault(t)
    \/ \E t \in DOMAIN tasks : Cleanup(t)
    \/ \E t \in DOMAIN tasks : CleanupFault(t)
    \/ \E t \in DOMAIN tasks : InsertResult(t)
    \/ \E t \in DOMAIN tasks : InsertResultFault(t)
    \/ \E t \in DOMAIN tasks : Complete(t)
    \/ \E t \in DOMAIN tasks : CompleteFault(t)
    \/ \E t \in DOMAIN tasks : Fail(t)
    \/ \E t \in DOMAIN tasks : FailFault(t)

\* concurrent start requests over the empty and the one-font catalog
Init == SystemInit("lean", MaxRequests, {Catalog(0), Catalog(1)}) /\ ScorerIdle /\ CronIdle

Spec == Init /\ [][Next]_vars

\* one start request, its scan over every window of a longer catalog
ScanInit == SystemInit("rich", 1, {Catalog(n) : n \in 0..MaxFonts}) /\ ScorerIdle /\ CronIdle

ScanSpec == ScanInit /\ [][Next]_vars

\* the scorer applied to every pair of short buffers
ScorerInit ==
    /\ SystemInit("lean", 0, {Catalog(0)})
    /\ \E pair \in BufferPairs : img1Buffer = pair[1] /\ img2Buffer = pair[2]
    /\ scorerOut = <<>>
    /\ windows = <<>>
    /\ CronIdle

ScorerSpec == ScorerInit /\ [][Score]_vars

\* the catalog source applied to every short catalog, in either order
WindowInit ==
    /\ SystemInit("lean", 0, {Catalog(n) : n \in 0..MaxFonts} \cup {Reversed(n) : n \in 0..MaxFonts})
    /\ ScorerIdle
    /\ CronIdle

WindowNext ==
    \E offset \in 0..(Len(catalog) + 1), limit \in 1..(Len(catalog) + 1) : Window(offset, limit)

WindowSpec == WindowInit /\ [][WindowNext]_vars

\* one start request and its scan, which a stop of the host may cut short
StopInit == SystemInit("lean", 1, {Catalog(1), Catalog(2)}) /\ ScorerIdle /\ CronIdle

StopNext ==
    \/ ~stopped /\ Next
    \/ Stop

StopSpec == StopInit /\ [][StopNext]_vars

\* the run of main over every short catalog
MainInit ==
    /\ env = "rich"
    /\ catalog \in {Catalog(n) : n \in 0..MaxFonts}
    /\ batches = <<>>
    /\ fontRows = <<>>
    /\ reqs = <<>>
    /\ tasks = <<NewMainTask>>
    /\ ScorerIdle
    /\ CronIdle

MainNext ==
    \/ \E t \in DOMAIN tasks : Launch(t)
    \/ \E t \in DOMAIN tasks : LaunchFault(t)
    \/ \E t \in DOMAIN tasks : Fetch(t)
    \/ \E t \in DOMAIN tasks : FetchFault(t)
    \/ \E t \in DOMAIN tasks : NewPage(t)
    \/ \E t \in DOMAIN tasks : NewPageFault(t)
    \/ \E t \in DOMAIN tasks : Render(t)
    \/ \E t \in DOMAIN tasks : RenderFault(t)
    \/ \E t \in DOMAIN tasks : Probe(t)
    \/ \E t \in DOMAIN tasks : ProbeFault(t)
    \/ \E t \in DOMAIN tasks : Phrase(t)
    \/ \E t \in DOMAIN tasks : PhraseFault(t)
    \/ \E t \in DOMAIN tasks : ClosePage(t)
    \/ \E t \in DOMAIN tasks : ClosePageFault(t)
    \/ \E t \in DOMAIN tasks : Save(t)
    \/ \E t \in DOMAIN tasks : SaveFault(t)
    \/ \E t \in DOMAIN tasks : Cleanup(t)
    \/ \E t \in DOMAIN tasks : CleanupFault(t)
    \/ \E t \in DOMAIN tasks : MainSummary(t)
    \/ \E t \in DOMAIN tasks : MainExit(t)

MainSpec == MainInit /\ [][MainNext]_vars

\* one start request of either scan type, the periodic trigger and the clock
CronInit == SystemInit("typed", 1, {Catalog(1)}) /\ ScorerIdle /\ CronIdle

CronNext ==
    \/ Next
    \/ CronFire
    \/ CronLastScan
    \/ CronLastScanFault
    \/ CronRunningCheck
    \/ CronRunningCheckFault
    \/ \E d \in Durations : Pass(d)

CronSpec == CronInit /\ [][CronNext]_vars

(***************************************************************************)
(* Vocabulary of the properties.                                           *)
(***************************************************************************)
Terminal == {"completed", "failed"}

\* the positions between newPage resolving and page.close resolving
InAnalysis == {"render", "probe", "phrase", "closePage"}

\* request r leaves the running check in this step
AnswersCheck(r) == reqs[r].pc = "new" /\ reqs'[r].pc # "new"

\* request r is answered in this step
Answered(r) == reqs[r].pc # "done" /\ reqs'[r].pc = "done"

NothingWritten == batches' = batches /\ tasks' = tasks /\ fontRows' = fontRows

\* request r is answered 200 for a batch this step creates as running, with
\* its task started and not yet finished, and nothing else written
Created(r) ==
    LET id == reqs'[r].id
    IN  /\ reqs'[r].code = 200
        /\ id = Len(batches) + 1
        /\ Len(batches') = id /\ SubSeq(batches', 1, Len(batches)) = batches
        /\ batches'[id].status = "running"
        /\ Len(tasks') = id /\ SubSeq(tasks', 1, Len(tasks)) = tasks
        /\ tasks'[id].pc = "launch"
        /\ fontRows' = fontRows

ErrorFree(results) == {k \in 1..Len(results) : Falsy(results[k].error)}

Approved(results) == {k \in 1..Len(results) : results[k].autoApproved}

(***************************************************************************)
(* C1: at most one batch is running in every reachable state.              *)
(***************************************************************************)
RunExclusivity == Cardinality(Running) <= 1

(***************************************************************************)
(* C2, as claimed: a request whose running check is answered while a batch *)
(* is running is always answered 409 with the id of a running batch, and   *)
(* writes nothing.                                                         *)
(***************************************************************************)
ConflictAlways409 ==
    [][\A r \in Requests :
          (AnswersCheck(r) /\ Running # {}) =>
              /\ reqs'[r].pc = "done"
              /\ reqs'[r].code = 409 /\ reqs'[r].id \in Running
              /\ NothingWritten]_vars

(***************************************************************************)
(* C2, amended: such a request is always answered at once, 409 with the id *)
(* of a running batch or, when the SELECT itself rejects, 500; either way  *)
(* no batch is created, no task is started and no record changes.          *)
(***************************************************************************)
ConflictRejection ==
    [][\A r \in Requests :
          (AnswersCheck(r) /\ Running # {}) =>
              /\ reqs'[r].pc = "done"
              /\ \/ reqs'[r].code = 409 /\ reqs'[r].id \in Running
                 \/ reqs'[r].code = 500
              /\ NothingWritten]_vars

ConflictRejected ==
    \E r \in Requests :
        /\ reqs[r].pc = "done" /\ reqs[r].code = 409
        /\ reqs[r].id \in Running
        /\ Len(batches) = 1 /\ Len(tasks) = 1

(***************************************************************************)
(* C3: once the task of a batch has ended, whether its promise resolved or *)
(* was rejected, the batch is completed or failed.                         *)
(***************************************************************************)
TerminalResolution ==
    \A t \in DOMAIN tasks :
        Task(t).pc \in {"done", "rejected"} => batches[t].status \in Terminal

(***************************************************************************)
(* C4: when scanFontBatch has ended and exactly one font's analysis raised *)
(* a fault, it has returned one result per font of the window, in order,   *)
(* exactly one of them with a non-empty error and not approved.            *)
(***************************************************************************)
PerFontIsolation ==
    \A t \in DOMAIN tasks :
        LET rec == Task(t)
            errored == {k \in 1..Len(rec.results) : rec.results[k].error # NoError}
        IN  (rec.pc = "cleanup" /\ Cardinality(rec.faulted) = 1) =>
                /\ ~rec.thrown
                /\ Len(rec.results) = Len(rec.fonts)
                /\ \A k \in 1..Len(rec.results) : rec.results[k].fontFamily = rec.fonts[k]
                /\ errored = rec.faulted
                /\ \A k \in errored :
                      rec.results[k].error # "" /\ ~rec.results[k].autoApproved

(***************************************************************************)
(* C5, as claimed: whenever a task is not inside analyzeFontCharacters, no *)
(* session of it is open.                                                  *)
(***************************************************************************)
SessionsReleased ==
    \A t \in DOMAIN tasks : Task(t).pc \notin InAnalysis => Task(t).sessions = 0

(***************************************************************************)
(* C5, amended: every path through analyzeFontCharacters that has opened a *)
(* session ends in page.close; when page.close resolves, the number of     *)
(* open sessions is what it was before the call, and it differs only when  *)
(* page.close itself rejects; a rejected newPage opens none.               *)
(***************************************************************************)
SessionRelease ==
    [][\A t \in DOMAIN tasks :
          LET old == Task(t)
              new == tasks'[t]
          IN  /\ old.pc \in {"render", "probe", "phrase"} => new.pc \in InAnalysis
              /\ (old.pc = "newPage" /\ new.pc \in InAnalysis) =>
                     old.sessions = 0 /\ new.sessions = 1
              /\ (old.pc = "newPage" /\ new.pc \notin InAnalysis \cup {"newPage"}) =>
                     new.sessions = 0
              /\ (old.pc = "closePage" /\ new.pc # "closePage") =>
                     \/ new.sessions = 0 /\ ~new.thrown
                     \/ new.sessions = 1 /\ new.thrown /\ new.message = "E_closePage"]_vars

ClosedAfterFault ==
    \E t \in DOMAIN tasks :
        /\ Task(t).pc \in {"newPage", "cleanup"} /\ ~Task(t).thrown
        /\ Len(Task(t).results) >= 1
        /\ Task(t).results[Len(Task(t).results)].error = "E_render"
        /\ Task(t).sessions = 0

(***************************************************************************)
(* C6: every result without an error has hasVisualDistinction = (score >   *)
(* the threshold the request configured, 50 when it configured none) and   *)
(* autoApproved = (score > that threshold and allSupported).               *)
(***************************************************************************)
ClassificationPolicy ==
    \A r \in Requests :
        reqs[r].code = 200 =>
            LET configured == ParamDefault(reqs[r].body.pixelThreshold, DefaultPixelThreshold)
                results == Task(reqs[r].id).results
            IN  \A k \in 1..Len(results) :
                    results[k].error = NoError =>
                        LET distinct == results[k].okenVsApostropheDifference > configured
                        IN  /\ results[k].hasVisualDistinction = distinct
                            /\ results[k].autoApproved =
                                   (distinct /\ results[k].diacriticalSupport.allSupported)

(***************************************************************************)
(* C7: every score compareImages returns is a natural number: the absolute *)
(* difference of the lengths when they differ, the number of positions     *)
(* with different bytes when they are equal; lengths 100 and 120 give 20,  *)
(* no visual distinction at threshold 50.                                  *)
(***************************************************************************)
DifferenceScore ==
    \A k \in 1..Len(scorerOut) :
        LET la == Len(img1Buffer)
            lb == Len(img2Buffer)
        IN  /\ scorerOut[k] \in Nat
            /\ la > lb => scorerOut[k] = la - lb
            /\ la < lb => scorerOut[k] = lb - la
            /\ la = lb =>
                   scorerOut[k] = Cardinality({i \in 1..la : img1Buffer[i] # img2Buffer[i]})
            /\ (la = 100 /\ lb = 120) =>
                   /\ scorerOut[k] = 20
                   /\ ~hasVisualDistinction(scorerOut[k], DefaultPixelThreshold)

ScoredEqualLengths ==
    /\ img1Buffer = <<0, 1, 255>> /\ img2Buffer = <<0, 255, 1>>
    /\ scorerOut = <<2>>

(***************************************************************************)
(* C8, as claimed: a request whose running check found no running batch    *)
(* is always answered with a batch it has just created as running.         *)
(***************************************************************************)
AcceptedStartAlways ==
    [][\A r \in Requests :
          (Answered(r) /\ (reqs[r].pc = "checked" \/ Running = {})) => Created(r)]_vars

(***************************************************************************)
(* C8, amended: such a request creates exactly one batch, running from its *)
(* creation, starts exactly one task for it and is answered with its id    *)
(* while the batch is still running; unless the SELECT or the INSERT       *)
(* rejects: then it is answered 500 and has created and started nothing.   *)
(* The running check itself writes nothing.                                *)
(***************************************************************************)
AcceptedStart ==
    [][\A r \in Requests :
          /\ (Answered(r) /\ (reqs[r].pc = "checked" \/ Running = {})) =>
                 \/ Created(r)
                 \/ reqs'[r].code = 500 /\ NothingWritten
          /\ (reqs[r].pc = "new" /\ reqs'[r].pc = "checked") =>
                 Running = {} /\ NothingWritten]_vars

StartedAndAnswered ==
    \E r \in Requests :
        /\ reqs[r].pc = "done" /\ reqs[r].code = 200
        /\ batches[reqs[r].id].status = "running"
        /\ Task(reqs[r].id).pc = "launch"

(***************************************************************************)
(* C9: no batch row is ever removed, a running batch stays running or      *)
(* becomes completed or failed, and a completed or failed batch never      *)
(* changes again in any column.                                            *)
(***************************************************************************)
MonotonicStatus ==
    [][/\ Len(batches') >= Len(batches)
       /\ \A b \in 1..Len(batches) :
             /\ batches[b].status \in {"pending", "running"} \cup Terminal
             /\ batches[b].status \in Terminal => batches'[b] = batches[b]
             /\ batches[b].status = "running" =>
                    batches'[b].status \in {"running"} \cup Terminal]_vars

BothTerminal ==
    \E b, c \in 1..Len(batches) :
        /\ batches[b].status = "completed" /\ Task(b).pc = "done"
        /\ batches[c].status = "failed" /\ Task(c).pc = "done"

(***************************************************************************)
(* C10, as claimed: a completed batch records as fontsProcessed the number *)
(* of results, one per font of the window, and as fontsApproved the number *)
(* of approved results.                                                    *)
(***************************************************************************)
RecordedCountsAll ==
    \A t \in DOMAIN tasks :
        batches[t].status = "completed" =>
            /\ Len(Task(t).results) = Len(Task(t).fonts)
            /\ batches[t].fontsProcessed = Len(Task(t).results)
            /\ batches[t].fontsApproved = Cardinality(Approved(Task(t).results))

(***************************************************************************)
(* C10, amended: a completed batch has one result per font of the window;  *)
(* fontsProcessed is the number of results whose error is absent or empty  *)
(* and fontsApproved the number of approved results.                       *)
(***************************************************************************)
RecordedCounts ==
    \A t \in DOMAIN tasks :
        batches[t].status = "completed" =>
            /\ Len(Task(t).results) = Len(Task(t).fonts)
            /\ batches[t].fontsProcessed = Cardinality(ErrorFree(Task(t).results))
            /\ batches[t].fontsApproved = Cardinality(Approved(Task(t).results))

ThreeFontsTwoApproved ==
    \E t \in DOMAIN tasks :
        /\ batches[t].status = "completed"
        /\ Len(Task(t).results) = 3
        /\ [k \in 1..3 |-> Task(t).results[k].autoApproved] = <<TRUE, FALSE, TRUE>>
        /\ batches[t].fontsProcessed = 3 /\ batches[t].fontsApproved = 2

\* the positions of a task whose run has ended
Ended == {"done", "rejected"}

\* no row of fontRows belongs to batch t
NoRowsOf(rows, t) == \A k \in 1..Len(rows) : rows[k].batch # t

(***************************************************************************)
(* C11: a run asks the catalog once and never again; when that fetch       *)
(* fails, no font is analysed, no result is written, the error leaves      *)
(* scanFontBatch and runScan, and once the task has ended the batch is     *)
(* failed with the message of the fetch error.                             *)
(***************************************************************************)
FetchFailureFatal ==
    [][\A t \in DOMAIN tasks :
          LET old == Task(t)
              new == tasks'[t]
              cause == IF new.pc \in Ended THEN old.cause ELSE new.cause
          IN  /\ old.pc \notin {"launch", "fetch"} => new.pc # "fetch"
              /\ cause = "E_fetch" =>
                    /\ new.thrown /\ new.pc \in {"cleanup", "fail"} \cup Ended
                    /\ new.results = <<>> /\ new.faulted = {} /\ new.sessions = 0
                    /\ NoRowsOf(fontRows', t)
                    /\ new.pc \in Ended =>
                          /\ batches'[t].status = "failed"
                          /\ batches'[t].errorMessage = "E_fetch"]_vars

\* the callback of the periodic trigger takes a step
CronStep == cron' # cron

\* the callback returns in this step
CronReturns == cron.pc # "idle" /\ cron'.pc = "idle"

(***************************************************************************)
(* C12: when the trigger fires while less than the minimum interval has    *)
(* elapsed since the start of the last incremental batch, or while a batch *)
(* is running, no step of its callback, from the firing to its return,     *)
(* creates a batch, starts a task or changes a record.                     *)
(***************************************************************************)
NoActionWhenNotDue ==
    [][(CronStep /\ ~cron'.due) => NothingWritten]_vars

\* the trigger fired 13 days and a half after the last incremental batch
\* started, with no batch running, and its callback has returned
ReturnedTooSoon ==
    /\ cron.pc = "idle" /\ cron.outcome = "tooSoon" /\ ~cron.due
    /\ now = 13 * TicksPerDay + 1
    /\ Len(batches) = 1 /\ Len(tasks) = 1
    /\ batches[1].scanType = "incremental" /\ batches[1].startedAt = 0
    /\ batches[1].status = "completed"

(***************************************************************************)
(* C13: when the trigger fires while the minimum interval has elapsed (or  *)
(* there is no earlier incremental batch) and no batch is running, and its *)
(* callback has announced the incremental scan, then by its return a new   *)
(* batch of scanType incremental exists, running or already terminal, with *)
(* its task started.                                                       *)
(***************************************************************************)
TriggerStartsWhenDue ==
    [][(CronReturns /\ cron.due /\ cron'.outcome = "announced") =>
          \E b \in (cron.seen + 1)..Len(batches') :
              /\ batches'[b].scanType = "incremental"
              /\ batches'[b].status \in {"running"} \cup Terminal
              /\ b \in DOMAIN tasks']_vars

(***************************************************************************)
(* C15: a run has at most one session open at any instant, and a session   *)
(* is opened only when none is open: the session of font i + 1 is opened   *)
(* after font i has its result and its session is closed.                  *)
(***************************************************************************)
SerializedSessions ==
    [][\A t \in DOMAIN tasks :
          LET old == Task(t)
              new == tasks'[t]
          IN  /\ old.sessions <= 1 /\ new.sessions <= 1
              /\ new.sessions > old.sessions =>
                    /\ old.pc = "newPage" /\ old.sessions = 0
                    /\ Len(old.results) = old.i - 1]_vars

\* the session of the second font is open and the first font has its result
SecondSessionOpen ==
    \E t \in DOMAIN tasks :
        /\ Task(t).pc = "render" /\ Task(t).i = 2
        /\ Task(t).sessions = 1
        /\ Len(Task(t).results) = 1

\* the messages of the writes to the persistence layer that failed
PersistenceErrors == {"E_insert", "E_complete", "E_fail"}

(***************************************************************************)
(* C16: when a write of a font result or of a status fails during a run,   *)
(* then once the task has ended the batch is failed with the message of    *)
(* such a failure; and no row of a font result is ever taken back.         *)
(***************************************************************************)
PersistenceFailureFatal ==
    [][/\ Len(fontRows') >= Len(fontRows)
       /\ SubSeq(fontRows', 1, Len(fontRows)) = fontRows
       /\ \A t \in DOMAIN tasks :
             LET new == tasks'[t]
                 failures == {Task(t).cause, new.message} \cap PersistenceErrors
             IN  (Task(t).pc \notin Ended /\ new.pc \in Ended /\ failures # {}) =>
                     /\ batches'[t].status = "failed"
                     /\ batches'[t].errorMessage \in failures]_vars

\* the messages of the faults of the rendering engine itself
EngineErrors == {"E_launch", "E_newPage"}

(***************************************************************************)
(* C17: when the engine fails to start or can no longer open a session,    *)
(* the run is aborted: no further font is analysed and no results are      *)
(* returned; once the task has ended the batch is failed with the message  *)
(* of that fault.                                                          *)
(***************************************************************************)
EngineFailureFatal ==
    [][\A t \in DOMAIN tasks :
          LET old == Task(t)
              new == tasks'[t]
          IN  old.cause \in EngineErrors =>
                  /\ old.thrown /\ old.pc \in {"cleanup", "fail"}
                  /\ old.results = <<>> /\ new.results = <<>>
                  /\ new.pc \in {"cleanup", "fail"} \cup Ended
                  /\ new.pc \in Ended =>
                        /\ batches'[t].status = "failed"
                        /\ batches'[t].errorMessage = old.cause]_vars

\* the font families of the rows handed to insert_scan_result for batch t
RowsOf(t) ==
    LET mine == SelectSeq(fontRows, LAMBDA row : row.batch = t)
    IN  [k \in 1..Len(mine) |-> mine[k].fontFamily]

\* the font families of the results that carry no error, in order
ErrorFreeFamilies(results) ==
    LET clean == SelectSeq(results, LAMBDA result : Falsy(result.error))
    IN  [k \in 1..Len(clean) |-> clean[k].fontFamily]

(***************************************************************************)
(* C18, as claimed: when a batch is completed, one record has been handed  *)
(* to the persistence layer for every font of its window, in order, the    *)
(* fonts whose analysis failed included.                                   *)
(***************************************************************************)
OneRecordPerFontAll ==
    \A t \in DOMAIN tasks :
        batches[t].status = "completed" => RowsOf(t) = Task(t).fonts

(***************************************************************************)
(* C18, amended: when a batch is completed, the run has one result for     *)
(* every font of its window, in order, and exactly the results that carry  *)
(* no error (none, or an empty one) have been handed to the persistence    *)
(* layer, once each and in order; a font whose analysis failed has an      *)
(* errored result in the run and no record in the persistence layer.       *)
(***************************************************************************)
OneRecordPerFont ==
    \A t \in DOMAIN tasks :
        batches[t].status = "completed" =>
            /\ [k \in 1..Len(Task(t).results) |-> Task(t).results[k].fontFamily] = Task(t).fonts
            /\ RowsOf(t) = ErrorFreeFamilies(Task(t).results)

\* a completed batch of two fonts, the first of which failed to render
OneOfTwoRecorded ==
    \E t \in DOMAIN tasks :
        /\ batches[t].status = "completed"
        /\ Len(Task(t).fonts) = 2
        /\ Task(t).results[1].error = "E_render"
        /\ Task(t).results[2].error = NoError
        /\ RowsOf(t) = <<Task(t).fonts[2]>>

TerminalFields ==
    \A b \in 1..Len(batches) :
        /\ batches[b].completedAt <=> batches[b].status \in Terminal
        /\ batches[b].errorMessage # NoError => batches[b].status = "failed"
        /\ batches[b].status = "completed" => batches[b].errorMessage = NoError
        /\ batches[b].status = "running" =>
              ~batches[b].completedAt /\ batches[b].errorMessage = NoError

\* a failed batch with its message and a completed one without
OneOfEachStatus ==
    \E a, b \in 1..Len(batches) :
        /\ batches[a].status = "failed" /\ batches[a].completedAt
        /\ batches[a].errorMessage = "E_fetch"
        /\ batches[b].status = "completed" /\ batches[b].completedAt
        /\ batches[b].errorMessage = NoError

\* the probe of task t returns in this step
ProbeReturns(t) == Task(t).pc = "probe" /\ tasks'[t].pc = "phrase"

\* the characters a summary maps to true
MappedToTrue(summary) == {c \in DOMAIN summary.individual : summary.individual[c]}

\* what the claim states of every summary
SummaryCounts(summary) ==
    /\ summary.supportedCount >= 0 /\ summary.supportedCount <= summary.totalCount
    /\ summary.supportedCount = Cardinality(MappedToTrue(summary))
    /\ summary.totalCount = 0 => summary.percentageSupported = 0

\* what the claim states of the normal path, for the widths measured
SummaryOfWidths(summary, widths) ==
    /\ summary.totalCount = 10
    /\ DOMAIN summary.individual = 1..10
    /\ \A c \in 1..10 : summary.individual[c] <=> widths[c] > 10
    /\ summary.allSupported <=> summary.supportedCount = summary.totalCount

(***************************************************************************)
(* C21, as claimed: every summary the probe returns, on the normal and on  *)
(* the fault path, has allSupported = (supportedCount = totalCount),       *)
(* 0 <= supportedCount <= totalCount, supportedCount = the number of       *)
(* characters mapped to true and percentageSupported = 0 when totalCount   *)
(* is 0; on the normal path totalCount is 10 and a character is supported  *)
(* iff its width is > 10.                                                  *)
(***************************************************************************)
SummaryInvariantAll ==
    [][\A t \in DOMAIN tasks :
          ProbeReturns(t) =>
              LET summary == tasks'[t].diacriticalTest
              IN  /\ SummaryCounts(summary)
                  /\ summary.allSupported <=> summary.supportedCount = summary.totalCount
                  /\ Task(t).i \notin tasks'[t].faulted =>
                        SummaryOfWidths(summary, tasks'[t].widths)]_vars

(***************************************************************************)
(* C21, amended: every summary has 0 <= supportedCount <= totalCount,      *)
(* supportedCount = the number of characters mapped to true and            *)
(* percentageSupported = 0 when totalCount is 0; on the normal path        *)
(* totalCount is 10, a character is supported iff its width is > 10 and    *)
(* allSupported = (supportedCount = totalCount); on the fault path the     *)
(* summary is the fixed one: no character, both counts 0, percentage 0     *)
(* and allSupported = false, although the two counts are equal.            *)
(***************************************************************************)
SummaryInvariant ==
    [][\A t \in DOMAIN tasks :
          ProbeReturns(t) =>
              LET summary == tasks'[t].diacriticalTest
              IN  /\ SummaryCounts(summary)
                  /\ IF Task(t).i \notin tasks'[t].faulted
                     THEN SummaryOfWidths(summary, tasks'[t].widths)
                     ELSE /\ summary.individual = <<>>
                          /\ summary.supportedCount = 0 /\ summary.totalCount = 0
                          /\ summary.percentageSupported = 0
                          /\ ~summary.allSupported]_vars

\* the probe has returned for a font one of whose characters is 10 wide
NineOfTenSupported ==
    \E t \in DOMAIN tasks :
        /\ Task(t).pc = "phrase"
        /\ Task(t).widths = OneAtLimit
        /\ Task(t).diacriticalTest.supportedCount = 9
        /\ Task(t).diacriticalTest.percentageSupported = 90
        /\ ~Task(t).diacriticalTest.allSupported

\* the fonts of a sequence, as a set
FontsOf(fonts) == {fonts[k] : k \in 1..Len(fonts)}

\* the positions (0-based) a window of the catalog asks for
Asked(w) == w.offset..(w.offset + w.limit - 1)

(***************************************************************************)
(* C22: for offset >= 0 and limit >= 1 fetchGoogleFonts returns the fonts  *)
(* at the positions offset .. offset + limit - 1 of the catalog that       *)
(* exist, in the catalog's order: at most limit fonts, none when offset is *)
(* at or past the end, and two windows over disjoint ranges share no font. *)
(***************************************************************************)
FetchWindow ==
    /\ \A k \in 1..Len(windows) :
          LET w == windows[k]
              n == Len(catalog)
              size == IF w.offset >= n THEN 0
                      ELSE IF w.offset + w.limit > n THEN n - w.offset ELSE w.limit
          IN  /\ w.fonts = [j \in 1..size |-> catalog[w.offset + j]]
              /\ Len(w.fonts) <= w.limit
              /\ w.offset >= n => w.fonts = <<>>
    /\ \A j, k \in 1..Len(windows) :
          Asked(windows[j]) \cap Asked(windows[k]) = {} =>
              FontsOf(windows[j].fonts) \cap FontsOf(windows[k].fonts) = {}

\* two adjacent windows of two fonts over a catalog of three, the second cut
\* short by the end of the catalog
AdjacentWindows ==
    /\ catalog = <<3, 2, 1>>
    /\ windows = <<[offset |-> 0, limit |-> 2, fonts |-> <<3, 2>>],
                   [offset |-> 2, limit |-> 2, fonts |-> <<1>>]>>

(***************************************************************************)
(* C23: in no reachable state has the host process ended while a session   *)
(* or an engine that a run opened is still open.                           *)
(***************************************************************************)
ReleasedOnShutdown ==
    stopped =>
        \A t \in DOMAIN tasks : Task(t).sessions = 0 /\ Task(t).browser # "open"

(***************************************************************************)
(* C24, as claimed: once runScan has returned or thrown, no engine it      *)
(* launched is still open.                                                 *)
(***************************************************************************)
InRunScan ==
    {"launch", "fetch", "newPage", "render", "probe", "phrase", "closePage", "save", "cleanup"}

EngineClosedAfterRun ==
    \A t \in DOMAIN tasks : Task(t).pc \notin InRunScan => Task(t).browser # "open"

(***************************************************************************)
(* C24, amended: a run launches an engine only at its first step and only  *)
(* when it holds none; it leaves runScan either from a launch that failed, *)
(* with no engine and the launch error, or from cleanup, whatever brought  *)
(* it there (results, a fetch, rendering or save fault); when              *)
(* browser.close resolves the engine is closed and the run's outcome is    *)
(* what it was, and only when browser.close itself rejects is the engine   *)
(* still open, with that error leaving runScan.                            *)
(***************************************************************************)
EngineLifecycle ==
    [][\A t \in DOMAIN tasks :
          LET old == Task(t)
              new == tasks'[t]
          IN  /\ (new.browser = "open" /\ old.browser # "open") =>
                     old.pc = "launch" /\ old.browser = "null"
              /\ (old.pc \in InRunScan /\ new.pc \in InRunScan) => new.pc # "launch"
              /\ (old.pc \in InRunScan \ {"launch", "cleanup"}) =>
                     /\ old.browser = "open"
                     /\ new.pc \in InRunScan
                     /\ new.browser = "open"
              /\ (old.pc \in InRunScan /\ new.pc \notin InRunScan) =>
                     \/ /\ old.pc = "launch"
                        /\ new.browser = "null"
                        /\ new.thrown /\ new.message = "E_launch"
                     \/ /\ old.pc = "cleanup"
                        /\ new.browser = "closed"
                        /\ new.thrown = old.thrown /\ new.message = old.message
                     \/ /\ old.pc = "cleanup"
                        /\ new.browser = "open"
                        /\ new.thrown /\ new.message = "E_cleanup"]_vars

\* a run whose save failed has left runScan with its engine closed and the
\* save error
ClosedAfterSaveFault ==
    \E t \in DOMAIN tasks :
        /\ Task(t).pc = "exit"
        /\ Task(t).message = "E_save"
        /\ Task(t).browser = "closed"

(***************************************************************************)
(* C25, as claimed: while at least one batch exists and every batch is     *)
(* completed or failed, a request's running check lets it pass, and a      *)
(* request that is answered has created a new running batch.               *)
(***************************************************************************)
AllTerminal == batches # <<>> /\ \A b \in 1..Len(batches) : batches[b].status \in Terminal

NoLockoutAlways ==
    [][\A r \in Requests :
          AllTerminal =>
              /\ AnswersCheck(r) => reqs'[r].pc = "checked"
              /\ Answered(r) => Created(r)]_vars

(***************************************************************************)
(* C25, amended: while at least one batch exists and every batch is        *)
(* completed or failed, a request passes the running check and then        *)
(* creates a new running batch, unless the SELECT or the INSERT rejects    *)
(* (then it is answered 500 and nothing is created); and a request is      *)
(* answered 409 only with the id of a batch that is running when its       *)
(* check is answered, never with a completed or failed one.                *)
(***************************************************************************)
NoLockout ==
    [][\A r \in Requests :
          /\ AllTerminal =>
                 /\ AnswersCheck(r) =>
                        /\ NothingWritten
                        /\ reqs'[r].pc = "checked" \/ reqs'[r].code = 500
                 /\ Answered(r) =>
                        \/ reqs[r].pc = "checked" /\ Created(r)
                        \/ reqs'[r].code = 500 /\ NothingWritten
          /\ (Answered(r) /\ reqs'[r].code = 409) =>
                 /\ reqs[r].pc = "new"
                 /\ reqs'[r].id \in 1..Len(batches)
                 /\ batches[reqs'[r].id].status = "running"]_vars

\* a second batch has been created and is running beside a finished first one
StartedAfterTerminal ==
    \E r \in Requests :
        /\ reqs[r].pc = "done" /\ reqs[r].code = 200 /\ reqs[r].id = 2
        /\ batches[1].status \in Terminal /\ Task(1).pc = "done"
        /\ batches[2].status = "running" /\ Task(2).pc = "launch"

(***************************************************************************)
(* C26: a font result of a batch is written only by its task's insert      *)
(* step, when runScan has returned one result for every font of the window *)
(* and the browser is closed, and while the batch is running before and    *)
(* after the write; the batch becomes completed only in a later step, with *)
(* every error-free result written; nothing is written for a completed or  *)
(* failed batch; and a batch that fails on an error raised before the      *)
(* first write has no result written.                                      *)
(***************************************************************************)
WriteOrdering ==
    [][\A t \in DOMAIN tasks :
          LET old == Task(t)
              new == tasks'[t]
          IN  /\ RowsOf(t)' # RowsOf(t) =>
                     /\ old.pc = "insert" /\ ~old.thrown
                     /\ old.browser = "closed" /\ old.sessions = 0
                     /\ Len(old.results) = Len(old.fonts)
                     /\ new.results = old.results
                     /\ RowsOf(t)' = Append(RowsOf(t), old.results[old.k].fontFamily)
                     /\ batches[t].status = "running" /\ batches'[t].status = "running"
              /\ (batches[t].status = "running" /\ batches'[t].status = "completed") =>
                     /\ old.pc = "complete"
                     /\ RowsOf(t)' = RowsOf(t)
                     /\ RowsOf(t) = ErrorFreeFamilies(old.results)
              /\ (batches[t].status = "running" /\ batches'[t].status = "failed"
                      /\ old.cause \notin PersistenceErrors) =>
                     RowsOf(t)' = <<>>]_vars

\* the first of two results is written, the second is about to be: the
\* browser is closed and the batch still running
BetweenTwoWrites ==
    \E t \in DOMAIN tasks :
        /\ Task(t).pc = "insert" /\ Task(t).k = 2
        /\ Len(Task(t).results) = 2
        /\ RowsOf(t) = <<Task(t).fonts[1]>>
        /\ Task(t).browser = "closed"
        /\ batches[t].status = "running"

(***************************************************************************)
(* C27, as claimed: when the analysis of a font whose probe faulted ends,  *)
(* the font has a result that is not approved and carries no error field,  *)
(* and its session is closed.                                              *)
(***************************************************************************)
\* the probe of the font in analysis has faulted: the snapshots were scored
\* and the summary is the fallback one (a probe that answers counts the ten
\* characters)
ProbeFaulted(rec) ==
    /\ rec.pc \in {"phrase", "closePage"}
    /\ rec.pixelDifference # Undefined
    /\ rec.diacriticalTest = FallbackSummary

ProbeFaultsNeverApproveAlways ==
    [][\A t \in DOMAIN tasks :
          LET old == Task(t)
              new == tasks'[t]
          IN  (old.pc = "closePage" /\ ProbeFaulted(old)
                  /\ new.pc # "closePage") =>
                  /\ ~new.thrown /\ new.sessions = 0
                  /\ Len(new.results) = Len(old.results) + 1
                  /\ ~new.results[Len(new.results)].autoApproved
                  /\ "error" \notin new.results[Len(new.results)].keys]_vars

(***************************************************************************)
(* C27, amended: a fault inside the probe is absorbed there: the analysis  *)
(* goes on to the phrase snapshot with the fallback summary                *)
(* (allSupported = false) and the session untouched.  The result of such a *)
(* font is never approved; it carries an error field only when the phrase  *)
(* snapshot faults as well, and then that fault's message.  Its session is *)
(* closed and the result pushed when page.close resolves; when page.close  *)
(* rejects the session stays open and the error leaves the run with no     *)
(* result.  No result with an error field and no result without full       *)
(* support adds to the approved count, which is what fontsApproved gets.   *)
(***************************************************************************)
ProbeFaultsNeverApprove ==
    [][\A t \in DOMAIN tasks :
          LET old == Task(t)
              new == tasks'[t]
          IN  /\ (old.pc = "probe" /\ new.faulted # old.faulted) =>
                     /\ new.pc = "phrase" /\ ~new.thrown
                     /\ ProbeFaulted(new)
                     /\ ~new.diacriticalTest.allSupported
                     /\ new.sessions = old.sessions /\ new.results = old.results
              /\ (old.pc = "probe" /\ new.faulted = old.faulted /\ new.pc # "probe") =>
                     ~ProbeFaulted(new)
              /\ (old.pc = "phrase" /\ ProbeFaulted(old)
                      /\ new.pc # "phrase") =>
                     /\ new.pc = "closePage" /\ ProbeFaulted(new)
                     /\ ~new.analysis.autoApproved
                     /\ "error" \in new.analysis.keys => new.analysis.error = "E_phrase"
              /\ (old.pc = "closePage" /\ ProbeFaulted(old)
                      /\ new.pc # "closePage") =>
                     \/ /\ ~new.thrown /\ new.sessions = old.sessions - 1
                        /\ Len(new.results) = Len(old.results) + 1
                        /\ ~new.results[Len(new.results)].autoApproved
                        /\ "error" \in new.results[Len(new.results)].keys
                               <=> "error" \in old.analysis.keys
                     \/ /\ new.thrown /\ new.message = "E_closePage"
                        /\ new.sessions = old.sessions /\ new.results = <<>>
              /\ new.approvedCount > old.approvedCount =>
                     /\ old.pc = "insert"
                     /\ new.approvedCount = old.approvedCount + 1
                     /\ "error" \notin old.results[old.k].keys
                     /\ old.results[old.k].diacriticalSupport.allSupported
              /\ (batches[t].status # "completed" /\ batches'[t].status = "completed") =>
                     batches'[t].fontsApproved = old.approvedCount]_vars

\* a completed batch of one font whose probe faulted: its result shows the
\* visual distinction and no error, is written, and is not approved
DistinctButNotApproved ==
    \E t \in DOMAIN tasks :
        /\ batches[t].status = "completed"
        /\ Len(Task(t).results) = 1
        /\ Task(t).results[1].diacriticalSupport = FallbackSummary
        /\ "error" \notin Task(t).results[1].keys
        /\ Task(t).results[1].hasVisualDistinction
        /\ ~Task(t).results[1].autoApproved
        /\ Task(t).sessions = 0
        /\ Len(RowsOf(t)) = 1
        /\ batches[t].fontsApproved = 0

====
